---- MODULE Spec2Model ----
(***************************************************************************)
(* Apartments (CSES): sort the applicants and the apartments, then count   *)
(* compatible pairs with a two-pointer sweep.  The repository holds two    *)
(* variants of main():                                                     *)
(*   variant 1  src/Apartments_shot_1.cpp       (else-if: a[i]-b[j] > k)   *)
(*   variant 2  src/temp/Apartments_shot_1.cpp  (else-if: a[i] < b[j])     *)
(* All values are C++ `int` (32-bit two's complement).  a[i]-b[j] and      *)
(* abs(INT_MIN) are undefined behaviour when they leave the int range; the *)
(* model resolves it per build: "wrap" (the value modulo 2^32, what the    *)
(* default g++/clang build does) or "trap" (the process aborts, -ftrapv).  *)
(***************************************************************************)
EXTENDS Integers, Sequences, FiniteSets

VARIABLES
    a,        \* the applicants vector: as read, then sorted in place
    b,        \* the apartments vector: as read, then sorted in place
    k,        \* tolerance
    variant,  \* which of the two source files runs
    build,    \* how the build resolves undefined behaviour
    i, j,     \* sweep indices (0-based, as in the source)
    count,    \* ans / count
    iter,     \* number of loop iterations executed so far (history variable)
    out,      \* what was printed: <<>> before printing, <<count>> after
    pc        \* "sort", "loop", "done", "trap"

vars == <<a, b, k, variant, build, i, j, count, iter, out, pc>>

(***************************************************************************)
(* Bounds of the model and the int type.                                   *)
(***************************************************************************)
MaxApplicants == 3
MaxApartments == 2

INT_MAX == 2147483647
INT_MIN == (-INT_MAX) - 1

\* Input values: the two lowest ints, zero and the highest int.
Vals == {INT_MIN, INT_MIN + 1, 0, INT_MAX}
\* Tolerances (k >= 0).
Ks == {0, 1, INT_MAX}
Variants == {1, 2}
Builds == {"wrap", "trap"}

SeqsUpTo(S, n) == UNION {[1..l -> S] : l \in 0..n}
ApplicantInputs == SeqsUpTo(Vals, MaxApplicants)
ApartmentInputs == SeqsUpTo(Vals, MaxApartments)

(***************************************************************************)
(* int arithmetic.  Sub32(x, y) is x - y in `int`: ovf says whether the    *)
(* mathematical difference leaves [INT_MIN, INT_MAX], val is the           *)
(* difference modulo 2^32 (computed without leaving the int range).        *)
(***************************************************************************)
Sub32(x, y) ==
    IF y < 0 /\ x > INT_MAX + y
    THEN [ovf |-> TRUE,  val |-> ((x - INT_MAX) + (INT_MIN - y)) - 1]
    ELSE IF y > 0 /\ x < INT_MIN + y
    THEN [ovf |-> TRUE,  val |-> ((x - INT_MIN) + (INT_MAX - y)) + 1]
    ELSE [ovf |-> FALSE, val |-> x - y]

\* abs(d) in `int`: abs(INT_MIN) is not representable.
Abs32(d) ==
    IF d = INT_MIN THEN [ovf |-> TRUE,  val |-> INT_MIN]
    ELSE IF d < 0  THEN [ovf |-> FALSE, val |-> -d]
    ELSE                [ovf |-> FALSE, val |-> d]

\* The evaluation of abs(a[i] - b[j]) hits undefined behaviour.
TestUB(x, y) == Sub32(x, y).ovf \/ Abs32(Sub32(x, y).val).ovf

\* Faulty match test: abs() left out.
MatchTestNoAbs(x, y, kk) == Sub32(x, y).val <= kk

\* if (abs(a[i] - b[j]) <= k), as the wrapping build computes it.
MatchTest(x, y, kk) == Abs32(Sub32(x, y).val).val <= kk

\* The else-if of the two variants: TRUE when the sweep advances j alone.
\*   variant 1: else if (a[i] - b[j] > k) j++; else i++;
\*   variant 2: else if (applicants[i] < apartments[j]) i++; else j++;
AdvanceJTest(v, x, y, kk) ==
    IF v = 1 THEN Sub32(x, y).val > kk
             ELSE ~(x < y)

\* while (i < n && j < m)
LoopCond(ii, jj, n, m) == ii < n /\ jj < m

(***************************************************************************)
(* std::sort on a vector<int>: ascending order, same multiset.             *)
(***************************************************************************)
RECURSIVE Insert(_, _)
Insert(x, s) ==
    IF s = <<>> THEN <<x>>
    ELSE IF x <= Head(s) THEN <<x>> \o s
    ELSE <<Head(s)>> \o Insert(x, Tail(s))

\* Faulty sort: the vector is left in input order.
SortedNot(s) == s

RECURSIVE Sorted(_)
Sorted(s) == IF s = <<>> THEN <<>> ELSE Insert(Head(s), Sorted(Tail(s)))

\* Faulty initialisation: the counter starts at 1.
LocalsCountOne == [i |-> 0, j |-> 0, count |-> 1]

\* int i = 0, j = 0, ans = 0;
Locals == [i |-> 0, j |-> 0, count |-> 0]

\* Faulty match body: j++ left out.
MatchUpdateNoJ(ii, jj, cc) == [i |-> ii + 1, j |-> jj, count |-> cc + 1]
\* Faulty else body: i++ left out.
AdvanceIUpdateStuck(ii, jj, cc) == [i |-> ii, j |-> jj, count |-> cc]

\* The three bodies of the loop.
MatchUpdate(ii, jj, cc) == [i |-> ii + 1, j |-> jj + 1, count |-> cc + 1]
AdvanceIUpdate(ii, jj, cc) == [i |-> ii + 1, j |-> jj, count |-> cc]
AdvanceJUpdate(ii, jj, cc) == [i |-> ii, j |-> jj + 1, count |-> cc]

\* One iteration of the loop body on sorted vectors sa, sb (0-based ii, jj):
\* the new locals, or "trap" when the trapping build hits undefined behaviour.
Iteration(v, bld, sa, sb, kk, ii, jj, cc) ==
    LET x == sa[ii + 1]
        y == sb[jj + 1]
    IN  IF bld = "trap" /\ TestUB(x, y) THEN [trap |-> TRUE, i |-> ii, j |-> jj, count |-> cc]
        ELSE LET u == IF MatchTest(x, y, kk) THEN MatchUpdate(ii, jj, cc)
                      ELSE IF AdvanceJTest(v, x, y, kk) THEN AdvanceJUpdate(ii, jj, cc)
                      ELSE AdvanceIUpdate(ii, jj, cc)
             IN  [trap |-> FALSE, i |-> u.i, j |-> u.j, count |-> u.count]

(***************************************************************************)
(* The program as a state machine.                                         *)
(***************************************************************************)
Init ==
    /\ a \in ApplicantInputs
    /\ b \in ApartmentInputs
    /\ k \in Ks
    /\ variant \in Variants
    /\ build \in Builds
    /\ i = Locals.i
    /\ j = Locals.j
    /\ count = Locals.count
    /\ iter = 0
    /\ out = <<>>
    /\ pc = "sort"

\* sort(a.begin(), a.end()); sort(b.begin(), b.end());
Sort ==
    /\ pc = "sort"
    /\ a' = Sorted(a)
    /\ b' = Sorted(b)
    /\ pc' = "loop"
    /\ UNCHANGED <<k, variant, build, i, j, count, iter, out>>

\* One iteration of while (i < n && j < m) { ... }
Step ==
    /\ pc = "loop"
    /\ LoopCond(i, j, Len(a), Len(b))
    /\ LET r == Iteration(variant, build, a, b, k, i, j, count)
       IN  /\ ~r.trap
           /\ i' = r.i
           /\ j' = r.j
           /\ count' = r.count
    /\ iter' = iter + 1
    /\ UNCHANGED <<a, b, k, variant, build, out, pc>>

\* The trapping build aborts on the undefined subtraction / abs.
Trap ==
    /\ pc = "loop"
    /\ LoopCond(i, j, Len(a), Len(b))
    /\ Iteration(variant, build, a, b, k, i, j, count).trap
    /\ pc' = "trap"
    /\ UNCHANGED <<a, b, k, variant, build, i, j, count, iter, out>>

\* The loop condition fails: cout << ans << "\n"; return 0;
Output ==
    /\ pc = "loop"
    /\ ~LoopCond(i, j, Len(a), Len(b))
    /\ out' = <<count>>
    /\ pc' = "done"
    /\ UNCHANGED <<a, b, k, variant, build, i, j, count, iter>>

Next == Sort \/ Step \/ Trap \/ Output

Spec == Init /\ [][Next]_vars

\* main() runs on one thread with nothing to wait for: an enabled step is taken.
FairSpec == Spec /\ WF_vars(Next)

(***************************************************************************)
(* main() as a function of its input: the sweep run to its end on the      *)
(* sorted vectors.  The result is how the process ends ("done" after       *)
(* printing, "trap" when the trapping build aborted) and what it printed.  *)
(***************************************************************************)
RECURSIVE Sweep(_, _, _, _, _, _, _, _)
Sweep(v, bld, sa, sb, kk, ii, jj, cc) ==
    IF ~LoopCond(ii, jj, Len(sa), Len(sb))
    THEN [pc |-> "done", out |-> <<cc>>]
    ELSE LET r == Iteration(v, bld, sa, sb, kk, ii, jj, cc)
         IN  IF r.trap THEN [pc |-> "trap", out |-> <<>>]
             ELSE Sweep(v, bld, sa, sb, kk, r.i, r.j, r.count)

Run(v, bld, x, y, kk) ==
    Sweep(v, bld, Sorted(x), Sorted(y), kk, Locals.i, Locals.j, Locals.count)

\* How the run of the state machine ended.
Ended == pc \in {"done", "trap"}
Result == [pc |-> pc, out |-> out]

(***************************************************************************)
(* Reference notions the properties are stated with (mathematical          *)
(* integers, no int arithmetic involved).                                  *)
(***************************************************************************)
\* |x - y| <= kk over the mathematical integers, for x, y, kk in the int
\* range and kk >= 0 (evaluated without leaving the int range).
Compatible(x, y, kk) ==
    LET hi == IF x >= y THEN x ELSE y
        lo == IF x >= y THEN y ELSE x
    IN  IF lo >= 0 \/ hi < 0 THEN hi - lo <= kk
        ELSE hi <= kk + lo

SetMax(S) == CHOOSE x \in S : \A y \in S : y <= x
Min2(x, y) == IF x <= y THEN x ELSE y

\* Size of a maximum matching between the positions of x (from p on) and the
\* positions of y not in used, pairing only compatible values.
RECURSIVE Best(_, _, _, _, _)
Best(x, y, kk, p, used) ==
    IF p > Len(x) THEN 0
    ELSE SetMax({Best(x, y, kk, p + 1, used)} \cup
                {1 + Best(x, y, kk, p + 1, used \cup {q}) :
                    q \in {q \in (1..Len(y)) \ used : Compatible(x[p], y[q], kk)}})

MaxMatching(x, y, kk) == Best(x, y, kk, 1, {})

\* All orderings of the sequence s.
Perms(s) ==
    {[p \in 1..Len(s) |-> s[f[p]]] :
        f \in {g \in [1..Len(s) -> 1..Len(s)] : \A p, q \in 1..Len(s) : g[p] = g[q] => p = q}}

\* The next iteration, when the loop is about to run one.
InLoop == pc = "loop" /\ LoopCond(i, j, Len(a), Len(b))
NextIter == Iteration(variant, build, a, b, k, i, j, count)

\* A run in which no undefined behaviour occurred computes the maximum
\* matching (the trapping build prints only after such a run).
NoUBOptimal ==
    (build = "trap" /\ pc = "done") => out = <<MaxMatching(a, b, k)>>

(***************************************************************************)
(* C1: for all integer sequences and every k >= 0, the printed count is    *)
(* the size of a maximum matching of applicants to apartments with         *)
(* |applicant - apartment| <= k.                                           *)
(***************************************************************************)
C1_PrintsMaxMatching ==
    pc = "done" => out = <<MaxMatching(a, b, k)>>

(***************************************************************************)
(* C2: the result does not depend on the order of the input: the run on    *)
(* any ordering of the applicants and any ordering of the apartments (the  *)
(* same order included, i.e. a second run) ends as this run ended, with    *)
(* the same count printed.                                                 *)
(***************************************************************************)
C2_OrderIndependent ==
    Ended => \A pa \in Perms(a), pb \in Perms(b) :
                Run(variant, build, pa, pb, k) = Result

C2_Witness ==
    /\ build = "trap"
    /\ pc = "done"
    /\ out = <<2>>
    /\ Cardinality(Perms(a)) = 6
    /\ Cardinality(Perms(b)) = 2

(***************************************************************************)
(* C3: monotonicity in the tolerance: for 0 <= k1 <= k the count printed   *)
(* with k is at least the count printed with k1 on the same sequences.     *)
(***************************************************************************)
C3_MonotoneInK ==
    pc = "done" =>
        \A k1 \in Ks :
            (k1 <= k /\ Run(variant, build, a, b, k1).pc = "done")
                => Run(variant, build, a, b, k1).out[1] <= out[1]

(***************************************************************************)
(* C4: symmetry: the run with applicants and apartments exchanged ends as  *)
(* this run ended, with the same count printed.                            *)
(***************************************************************************)
C4_Symmetric ==
    Ended => Run(variant, build, b, a, k) = Result

C4_Witness ==
    /\ build = "trap"
    /\ pc = "done"
    /\ out = <<1>>
    /\ Len(a) = 3
    /\ Len(b) = 2
    /\ \A p \in 1..Len(a), q \in 1..Len(b) : a[p] # b[q]

(***************************************************************************)
(* C5: the printed result is at most min(n, m) (and the counter never      *)
(* exceeds it on the way).                                                 *)
(***************************************************************************)
C5_AtMostMin ==
    /\ count <= Min2(Len(a), Len(b))
    /\ pc = "done" => out[1] <= Min2(Len(a), Len(b))

C5_Witness ==
    /\ build = "trap"
    /\ pc = "done"
    /\ Len(a) = 3
    /\ Len(b) = 2
    /\ out = <<2>>

(***************************************************************************)
(* C6: with n = 0 or m = 0 the loop runs no iteration and the result is 0, *)
(* whatever k and the other sequence are.                                  *)
(***************************************************************************)
C6_EmptyGivesZero ==
    (Len(a) = 0 \/ Len(b) = 0) =>
        /\ iter = 0
        /\ pc # "trap"
        /\ pc = "done" => out = <<0>>

C6_Witness ==
    /\ pc = "done"
    /\ out = <<0>>
    /\ Len(a) = 0
    /\ Len(b) = 2
    /\ k = INT_MAX

(***************************************************************************)
(* C7: the two variants are equivalent: from every state the sweep         *)
(* reaches, the iteration of variant 1 and that of variant 2 lead to the   *)
(* same (i, j, count), and the two variants print the same count.          *)
(***************************************************************************)
C7_VariantsAgree ==
    /\ InLoop => Iteration(1, build, a, b, k, i, j, count)
                    = Iteration(2, build, a, b, k, i, j, count)
    /\ Ended => Run(1, build, a, b, k) = Run(2, build, a, b, k)

(***************************************************************************)
(* C8: the sweep terminates: 0 <= i <= n and 0 <= j <= m throughout, an    *)
(* iteration runs only with i < n and j < m (so both reads are in range),  *)
(* it advances i, j or both by exactly 1 and decreases neither, there are  *)
(* at most n + m iterations, the loop is left only with i = n or j = m,    *)
(* and every run ends.                                                     *)
(***************************************************************************)
C8_Terminates ==
    /\ [](/\ 0 <= i /\ i <= Len(a)
          /\ 0 <= j /\ j <= Len(b)
          /\ iter <= Len(a) + Len(b)
          /\ pc = "done" => (i = Len(a) \/ j = Len(b)))
    /\ [][iter' # iter =>
            /\ i < Len(a) /\ j < Len(b)
            /\ iter' = iter + 1
            /\ i' - i \in {0, 1}
            /\ j' - j \in {0, 1}
            /\ i' + j' > i + j]_vars
    /\ <>Ended

C8_Witness ==
    /\ build = "trap"
    /\ pc = "done"
    /\ iter = 4
    /\ i = 3
    /\ j = 1

(***************************************************************************)
(* C9: a skipped element can never be matched later: when the sweep        *)
(* advances i alone, applicants[i] is more than k away from every          *)
(* apartments[j'] with j' >= j; when it advances j alone, apartments[j] is *)
(* more than k away from every applicants[i'] with i' >= i.                *)
(***************************************************************************)
C9_SkippedNeverMatches ==
    (InLoop /\ ~NextIter.trap /\ NextIter.count = count) =>
        /\ NextIter.i = i + 1 =>
              \A q \in (j + 1)..Len(b) : ~Compatible(a[i + 1], b[q], k)
        /\ NextIter.j = j + 1 =>
              \A p \in (i + 1)..Len(a) : ~Compatible(a[p], b[j + 1], k)

(***************************************************************************)
(* C10: for int inputs the subtraction a[i] - b[j] of the sweep never      *)
(* overflows, so the match test and the a[i] - b[j] > k test agree with    *)
(* the comparisons on the mathematical difference.                         *)
(***************************************************************************)
C10_NoOverflow ==
    InLoop =>
        /\ ~Sub32(a[i + 1], b[j + 1]).ovf
        /\ MatchTest(a[i + 1], b[j + 1], k) <=> Compatible(a[i + 1], b[j + 1], k)
        /\ AdvanceJTest(1, a[i + 1], b[j + 1], k)
              <=> (a[i + 1] > b[j + 1] /\ ~Compatible(a[i + 1], b[j + 1], k))
====
